---- MODULE Spec2Model ----
(***************************************************************************)
(* claude-explorer: the conversation server (src/server.py) and the chunk  *)
(* partitioner (src/split_json.py).                                        *)
(*                                                                         *)
(* Text is a sequence of symbols.  The JSON punctuation characters, the    *)
(* space and the characters of data strings are one symbol each; a JSON    *)
(* field name ("uuid", "created_at", ...) and a bulk run of message text   *)
(* ("~20MB") are one symbol standing for that run of characters, none of   *)
(* which is a punctuation character.  ByteLen gives each symbol's length   *)
(* in bytes.                                                               *)
(***************************************************************************)
EXTENDS Integers, Sequences, FiniteSets, TLC

VARIABLES
    files,                \* the four candidate files under DATA_DIR = SOURCE_DIR
    conversations_cache,  \* server: the global cache, an insertion-ordered dict
    pc,                   \* server: "start", "serving" or "crashed"
    reads,                \* server: calls of load_conversations that read the files
    resp,                 \* server: the last HTTP response
    all_conversations,    \* partitioner: the loaded records
    chunks,               \* partitioner: closed chunks
    current_chunk,        \* partitioner: the chunk being filled
    current_size,         \* partitioner: its serialized size in bytes
    next_item,            \* partitioner: index of the next item of the packing loop
    manifest,             \* partitioner: the manifest written
    spc                   \* partitioner: position in split_conversations

vars == <<files, conversations_cache, pc, reads, resp,
          all_conversations, chunks, current_chunk, current_size,
          next_item, manifest, spc>>

serverVars == <<conversations_cache, pc, reads, resp>>
splitVars == <<all_conversations, chunks, current_chunk, current_size,
               next_item, manifest, spc>>

----------------------------------------------------------------------------
(* JSON values: what json.loads returns and json.dumps takes.              *)

Str(s) == [t |-> "str", v |-> s]
Num(n) == [t |-> "num", v |-> n]
Null == [t |-> "null", v |-> "null"]
Arr(items) == [t |-> "arr", v |-> items]
\* a Python int computed by the program
PyInt(n) == [t |-> "int", v |-> n]
\* a dict: the insertion-ordered sequence of its <<key, value>> pairs
Obj(pairs) == [t |-> "obj", v |-> pairs]

Min(S) == CHOOSE x \in S : \A y \in S : x <= y
Max(S) == CHOOSE x \in S : \A y \in S : x >= y

\* k in d
HasKey(d, k) == \E i \in 1..Len(d.v) : d.v[i][1] = k

\* d[k]
Item(d, k) == d.v[CHOOSE i \in 1..Len(d.v) : d.v[i][1] = k][2]

\* d.get(k, default)
Get(d, k, default) == IF HasKey(d, k) THEN Item(d, k) ELSE default

\* d[k] = val: an existing key keeps its position, a new key goes last
DictSet(d, k, val) ==
    IF HasKey(d, k)
    THEN Obj([i \in 1..Len(d.v) |-> IF d.v[i][1] = k THEN <<k, val>> ELSE d.v[i]])
    ELSE Obj(Append(d.v, <<k, val>>))

WhiteSpace == {" "}
NumberSyms == {"5"}

RECURSIVE JoinRange(_, _, _, _)
\* sep.join(parts[lo..hi]), halving the range
JoinRange(parts, sep, lo, hi) ==
    IF lo > hi THEN <<>>
    ELSE IF lo = hi THEN parts[lo]
    ELSE LET mid == (lo + hi) \div 2
         IN  JoinRange(parts, sep, lo, mid) \o sep \o JoinRange(parts, sep, mid + 1, hi)

\* sep.join(parts) for sequences of symbols
Flatten(parts, sep) == JoinRange(parts, sep, 1, Len(parts))

RECURSIVE DumpsWith(_, _, _)
\* json.dumps(value, separators=(itemsep, keysep))
DumpsWith(val, itemsep, keysep) ==
    CASE val.t = "str" -> <<"\"">> \o val.v \o <<"\"">>
      [] val.t = "num" -> <<val.v>>
      [] val.t = "null" -> <<"null">>
      [] val.t = "arr" ->
            <<"[">> \o Flatten([i \in 1..Len(val.v) |->
                                   DumpsWith(val.v[i], itemsep, keysep)], itemsep)
                    \o <<"]">>
      [] val.t = "obj" ->
            <<"{">> \o Flatten([i \in 1..Len(val.v) |->
                                   <<"\"">> \o val.v[i][1] \o <<"\"">> \o keysep
                                      \o DumpsWith(val.v[i][2], itemsep, keysep)], itemsep)
                    \o <<"}">>

\* json.dumps(value): the default separators are ', ' and ': '
Dumps(val) == DumpsWith(val, <<",", " ">>, <<":", " ">>)

\* json.dump(value, f, separators=(',', ':'))
DumpsCompact(val) == DumpsWith(val, <<",">>, <<":">>)

RECURSIVE SkipWs(_, _)
\* first position >= i of s that holds no white space (Len(s) + 1 when none)
SkipWs(s, i) ==
    IF i > Len(s) THEN Len(s) + 1
    ELSE IF s[i] \in WhiteSpace THEN SkipWs(s, i + 1)
    ELSE i

RECURSIVE FindQuote(_, _)
\* first position >= i of s that holds '"' (0 when none)
FindQuote(s, i) ==
    IF i > Len(s) THEN 0
    ELSE IF s[i] = "\"" THEN i
    ELSE FindQuote(s, i + 1)

ParseFail == [ok |-> FALSE, val |-> Null, pos |-> 0]

\* a string literal opening at s[i] = '"' and closing at s[j] (j = 0: unterminated)
StringTo(s, i, j) ==
    IF j = 0 THEN ParseFail
    ELSE [ok |-> TRUE, val |-> Str(SubSeq(s, i + 1, j - 1)), pos |-> j + 1]

\* a string literal opening at s[i] = '"': it runs to the next '"'
ParseString(s, i) == StringTo(s, i, FindQuote(s, i + 1))

RECURSIVE ParseValue(_, _)
RECURSIVE ParseElems(_, _, _)
RECURSIVE ParseMembers(_, _, _)

\* after the element r of an array: s[k] is the next symbol that is no white space
ElemsNext(s, acc, r, k) ==
    IF k > Len(s) THEN ParseFail
    ELSE IF s[k] = "," THEN ParseElems(s, k + 1, Append(acc, r.val))
    ELSE IF s[k] = "]" THEN [ok |-> TRUE, val |-> Arr(Append(acc, r.val)), pos |-> k + 1]
    ELSE ParseFail

ElemsAfter(s, acc, r) == IF ~r.ok THEN ParseFail ELSE ElemsNext(s, acc, r, SkipWs(s, r.pos))

\* the elements of an array, the first one starting at or after s[i]
ParseElems(s, i, acc) == ElemsAfter(s, acc, ParseValue(s, i))

\* after a member of an object, which made the object d: s[e] is the next symbol
MembersNext(s, d, e) ==
    IF e > Len(s) THEN ParseFail
    ELSE IF s[e] = "," THEN ParseMembers(s, e + 1, d)
    ELSE IF s[e] = "}" THEN [ok |-> TRUE, val |-> d, pos |-> e + 1]
    ELSE ParseFail

\* after the value r of the member named key
MemberValue(s, acc, key, r) ==
    IF ~r.ok THEN ParseFail
    ELSE MembersNext(s, DictSet(acc, key.val.v, r.val), SkipWs(s, r.pos))

\* after the name key of a member: s[c] is the next symbol, to be ':'
MemberColon(s, acc, key, c) ==
    IF c > Len(s) THEN ParseFail
    ELSE IF s[c] # ":" THEN ParseFail
    ELSE MemberValue(s, acc, key, ParseValue(s, c + 1))

MemberName(s, acc, key) ==
    IF ~key.ok THEN ParseFail ELSE MemberColon(s, acc, key, SkipWs(s, key.pos))

\* a member whose name is to open at s[k]
MemberAt(s, acc, k) ==
    IF k > Len(s) THEN ParseFail
    ELSE IF s[k] # "\"" THEN ParseFail
    ELSE MemberName(s, acc, ParseString(s, k))

\* the members of an object, the first name starting at or after s[i]
ParseMembers(s, i, acc) == MemberAt(s, acc, SkipWs(s, i))

\* an object opening at s[j] = '{': s[k] is its first symbol that is no white space
ObjectAt(s, j, k) ==
    IF k > Len(s) THEN ParseFail
    ELSE IF s[k] = "}" THEN [ok |-> TRUE, val |-> Obj(<<>>), pos |-> k + 1]
    ELSE ParseMembers(s, j + 1, Obj(<<>>))

\* an array opening at s[j] = '[': s[k] is its first symbol that is no white space
ArrayAt(s, j, k) ==
    IF k > Len(s) THEN ParseFail
    ELSE IF s[k] = "]" THEN [ok |-> TRUE, val |-> Arr(<<>>), pos |-> k + 1]
    ELSE ParseElems(s, j + 1, <<>>)

\* one JSON value starting at s[j], which is no white space
ValueAt(s, j) ==
    IF j > Len(s) THEN ParseFail
    ELSE CASE s[j] = "{" -> ObjectAt(s, j, SkipWs(s, j + 1))
           [] s[j] = "[" -> ArrayAt(s, j, SkipWs(s, j + 1))
           [] s[j] = "\"" -> ParseString(s, j)
           [] s[j] \in NumberSyms -> [ok |-> TRUE, val |-> Num(s[j]), pos |-> j + 1]
           [] s[j] = "null" -> [ok |-> TRUE, val |-> Null, pos |-> j + 1]
           [] OTHER -> ParseFail

\* one JSON value starting at or after s[i]
ParseValue(s, i) == ValueAt(s, SkipWs(s, i))

\* the document parsed as r: nothing but white space may follow it
WholeDocument(content, r) ==
    IF ~r.ok THEN [ok |-> FALSE, val |-> Null]
    ELSE IF SkipWs(content, r.pos) > Len(content) THEN [ok |-> TRUE, val |-> r.val]
    ELSE [ok |-> FALSE, val |-> Null]

\* json.loads(content): ok = FALSE stands for json.JSONDecodeError
Loads(content) == WholeDocument(content, ParseValue(content, 1))

\* the stretch of content from the first to the last of the positions keep
Between(content, keep) ==
    IF keep = {} THEN <<>> ELSE SubSeq(content, Min(keep), Max(keep))

\* content.strip()
Strip(content) == Between(content, {j \in 1..Len(content) : content[j] \notin WhiteSpace})

\* the 0-based index of the last of the 1-based positions hits, or -1
LastIndex(hits) == IF hits = {} THEN -1 ELSE Max(hits) - 1

\* a faulty search, content.find('},'): the 0-based index of the first '},' or -1
FindCloseComma(content) ==
    IF \E j \in 1..(Len(content) - 1) : content[j] = "}" /\ content[j + 1] = ","
    THEN Min({j \in 1..(Len(content) - 1) : content[j] = "}" /\ content[j + 1] = ","}) - 1
    ELSE -1

\* content.rfind('},'): the 0-based index of the last '},' or -1
RFindCloseComma(content) ==
    LastIndex({j \in 1..(Len(content) - 1) : content[j] = "}" /\ content[j + 1] = ","})

\* content.startswith('[')
StartsWithBracket(content) == Len(content) >= 1 /\ content[1] = "["

----------------------------------------------------------------------------
(* Python helpers.                                                         *)

\* the characters that data strings are compared by, in code-point order
CodePoints == <<"0", "1", "2", "3", "4", "5", "6", "7", "8", "9", "A", "B", "a", "b">>

Ord(c) == CHOOSE i \in 1..Len(CodePoints) : CodePoints[i] = c

RECURSIVE StrLess(_, _)
\* a < b for two str: lexicographic by code point
StrLess(a, b) ==
    IF b = <<>> THEN FALSE
    ELSE IF a = <<>> THEN TRUE
    ELSE IF a[1] = b[1] THEN StrLess(Tail(a), Tail(b))
    ELSE Ord(a[1]) < Ord(b[1])

LowerChar(c) == CASE c = "A" -> "a" [] c = "B" -> "b" [] OTHER -> c

\* s.lower()
Lower(s) == [i \in 1..Len(s) |-> LowerChar(s[i])]

\* needle in hay, for two str
Contains(hay, needle) ==
    \E i \in 1..(Len(hay) - Len(needle) + 1) :
        SubSeq(hay, i, i + Len(needle) - 1) = needle

\* bool(value)
Truthy(val) ==
    CASE val.t \in {"str", "arr", "obj"} -> val.v # <<>>
      [] val.t = "num" -> TRUE
      [] val.t = "int" -> val.v # 0
      [] OTHER -> FALSE

\* x.get(key, '') for the sort key
SortKey(x, key) == Get(x, key, Str(<<>>)).v

RECURSIVE InsertAfter(_, _, _, _, _)
\* the last position in lo..hi of the descending sequence acc whose key is >= k
\* (lo - 1 when none), by bisection
InsertAfter(acc, k, key, lo, hi) ==
    IF lo > hi THEN lo - 1
    ELSE LET mid == (lo + hi) \div 2
         IN  IF StrLess(SortKey(acc[mid], key), k)
             THEN InsertAfter(acc, k, key, lo, mid - 1)
             ELSE InsertAfter(acc, k, key, mid + 1, hi)

\* x goes after every element of the descending sequence acc whose key is >= its own
Insert(acc, x, key) ==
    LET j == InsertAfter(acc, SortKey(x, key), key, 1, Len(acc))
    IN  SubSeq(acc, 1, j) \o <<x>> \o SubSeq(acc, j + 1, Len(acc))

RECURSIVE SortRange(_, _, _, _, _)
\* acc with seq[lo..hi] inserted one after the other, halving the range
SortRange(seq, acc, key, lo, hi) ==
    IF lo > hi THEN acc
    ELSE IF lo = hi THEN Insert(acc, seq[lo], key)
    ELSE LET mid == (lo + hi) \div 2
             left == SortRange(seq, acc, key, lo, mid)
         IN  IF Len(left) = Len(acc) + (mid - lo + 1)  \* the first half is done first
             THEN SortRange(seq, left, key, mid + 1, hi)
             ELSE left

\* a faulty sort: the sequence is left in the order it has
Unsorted(seq, key) == seq

\* seq.sort(key=lambda x: x.get(key, ''), reverse=True): stable, descending
SortDesc(seq, key) == SortRange(seq, <<>>, key, 1, Len(seq))

\* seq[:n]
Take(seq, n) == SubSeq(seq, 1, IF Len(seq) < n THEN Len(seq) ELSE n)

K(name) == <<name>>

----------------------------------------------------------------------------
(* server.py: load_conversations.                                          *)

\* a file that does not exist
NoFile == [exists |-> FALSE, readable |-> FALSE, content |-> <<>>]
\* a file that exists and whose open() or read() raises
BadFile == [exists |-> TRUE, readable |-> FALSE, content |-> <<>>]
TextFile(content) == [exists |-> TRUE, readable |-> TRUE, content |-> content]

\* all_conversations.extend(data) for the re-parsed text; a failure is swallowed
Recovered(data) == IF data.ok THEN data.val.v ELSE <<>>

\* fixed = content[:last_complete+1] + ']' and its parse, if last_complete > 0
SalvageAt(stripped, last_complete) ==
    IF last_complete > 0
    THEN Recovered(Loads(SubSeq(stripped, 1, last_complete + 1) \o <<"]">>))
    ELSE <<>>

\* the salvage of the stripped content
SalvageStripped(stripped) ==
    IF StartsWithBracket(stripped)
    THEN SalvageAt(stripped, RFindCloseComma(stripped))
    ELSE <<>>

\* the salvage pass of the except json.JSONDecodeError branch
Salvage(content) == SalvageStripped(Strip(content))

\* what a file read as content adds, json.loads having given data
Extended(content, data) ==
    IF data.ok
    THEN IF data.val.t = "arr" THEN data.val.v ELSE <<data.val>>
    ELSE Salvage(content)

\* what one file adds to all_conversations
LoadFile(f) ==
    IF ~f.exists \/ ~f.readable THEN <<>> ELSE Extended(f.content, Loads(f.content))

NumFiles == 4

RECURSIVE LoadFrom(_, _, _)
LoadFrom(fs, i, acc) ==
    IF i > NumFiles THEN acc ELSE LoadFrom(fs, i + 1, acc \o LoadFile(fs[i]))

\* all_conversations after the loop over range(1, 5)
LoadAll(fs) == LoadFrom(fs, 1, <<>>)

\* 'uuid' in conv raises TypeError
InRaises(conv) == conv.t \in {"num", "null"}

\* 'uuid' in conv
HasUuid(conv) ==
    CASE conv.t = "obj" -> HasKey(conv, K("uuid"))
      [] conv.t = "arr" -> \E i \in 1..Len(conv.v) : conv.v[i] = Str(K("uuid"))
      [] conv.t = "str" -> Contains(conv.v, K("uuid"))
      [] OTHER -> FALSE

\* conversations_cache[conv['uuid']] = conv raises TypeError
StoreRaises(conv) ==
    \/ conv.t # "obj"
    \/ Item(conv, K("uuid")).t \in {"arr", "obj"}

\* a faulty store: the first record of a uuid is kept, later ones are ignored
KeepFirst(cache, conv) ==
    IF HasKey(cache, Item(conv, K("uuid"))) THEN cache
    ELSE DictSet(cache, Item(conv, K("uuid")), conv)

\* the cache after conversations_cache[conv['uuid']] = conv
IndexPut(cache, conv) == DictSet(cache, Item(conv, K("uuid")), conv)

\* one iteration of "for conv in all_conversations"
IndexStep(cache, conv) ==
    IF InRaises(conv) THEN [cache |-> cache, raised |-> TRUE]
    ELSE IF ~HasUuid(conv) THEN [cache |-> cache, raised |-> FALSE]
    ELSE IF StoreRaises(conv) THEN [cache |-> cache, raised |-> TRUE]
    ELSE [cache |-> IndexPut(cache, conv), raised |-> FALSE]

RECURSIVE IndexRange(_, _, _, _)
\* the iterations for all[lo..hi] in order, stopping at the first that raises
\* (the range is halved)
IndexRange(cache, all, lo, hi) ==
    IF lo > hi THEN [cache |-> cache, raised |-> FALSE]
    ELSE IF lo = hi THEN IndexStep(cache, all[lo])
    ELSE LET mid == (lo + hi) \div 2
             left == IndexRange(cache, all, lo, mid)
         IN  IF left.raised THEN left ELSE IndexRange(left.cache, all, mid + 1, hi)

\* the loop "for conv in all_conversations"
BuildIndex(cache, all) == IndexRange(cache, all, 1, Len(all))

\* if conversations_cache: return conversations_cache
CacheHit(cache) == cache.v # <<>>

\* what load_conversations returns after its loop over all_conversations
AfterBuild(built) == [cache |-> built.cache, raised |-> built.raised, read |-> TRUE]

\* load_conversations(): the cache it leaves, whether it raised, whether it read
load_conversations(cache, fs) ==
    IF CacheHit(cache)
    THEN [cache |-> cache, raised |-> FALSE, read |-> FALSE]
    ELSE AfterBuild(BuildIndex(cache, LoadAll(fs)))

----------------------------------------------------------------------------
(* server.py: the query layer.                                             *)

Untitled == Str(K("Untitled"))
Empty == Str(<<>>)

\* len(value)
PyLen(val) == Len(val.v)

\* one element of get_conversation_list's result
ListRecord(uuid, conv) ==
    Obj(<< <<K("uuid"), uuid>>,
           <<K("name"), Get(conv, K("name"), Untitled)>>,
           <<K("summary"), Get(conv, K("summary"), Empty)>>,
           <<K("created_at"), Get(conv, K("created_at"), Empty)>>,
           <<K("updated_at"), Get(conv, K("updated_at"), Empty)>>,
           <<K("message_count"), PyInt(PyLen(Get(conv, K("chat_messages"), Arr(<<>>))))>> >>)

\* get_conversation_list() over the loaded cache
get_conversation_list(cache) ==
    SortDesc([i \in 1..Len(cache.v) |-> ListRecord(cache.v[i][1], cache.v[i][2])],
             K("created_at"))

\* what a dict item of the given type adds to content_parts
BlockPart(item, type) ==
    CASE type = Str(K("text")) -> <<Get(item, K("text"), Empty).v>>
      [] type = Str(K("tool_use")) ->
            << <<"\n", "[Tool: ">> \o Get(item, K("name"), Str(K("unknown"))).v
                                   \o <<"]", "\n">> >>
      [] type = Str(K("tool_result")) ->
            << <<"\n", "[Tool Result]", "\n">> \o Get(item, K("content"), Empty).v >>
      [] OTHER -> <<>>

\* what one content item adds to content_parts (<<>> when nothing)
ContentPart(item) ==
    CASE item.t = "obj" -> BlockPart(item, Get(item, K("type"), Null))
      [] item.t = "str" -> <<item.v>>
      [] OTHER -> <<>>

RECURSIVE ContentParts(_, _)
ContentParts(items, i) ==
    IF i > Len(items) THEN <<>> ELSE ContentPart(items[i]) \o ContentParts(items, i + 1)

\* content_parts after "if 'text' in msg and msg['text']"
TextParts(msg) ==
    IF HasKey(msg, K("text")) /\ Truthy(Item(msg, K("text")))
    THEN <<Item(msg, K("text")).v>> ELSE <<>>

\* what "if 'content' in msg and msg['content']" adds to content_parts
BlockParts(msg) ==
    IF HasKey(msg, K("content")) /\ Truthy(Item(msg, K("content")))
    THEN ContentParts(Item(msg, K("content")).v, 1) ELSE <<>>

\* format_message_content(msg)
format_message_content(msg) == Flatten(TextParts(msg) \o BlockParts(msg), <<"\n">>)

\* one element of serve_conversation's messages
MessageRecord(msg) ==
    Obj(<< <<K("uuid"), Get(msg, K("uuid"), Empty)>>,
           <<K("sender"), Get(msg, K("sender"), Str(K("unknown")))>>,
           <<K("created_at"), Get(msg, K("created_at"), Empty)>>,
           <<K("content"), Str(format_message_content(msg))>>,
           <<K("attachments"), Get(msg, K("attachments"), Arr(<<>>))>>,
           <<K("files"), Get(msg, K("files"), Arr(<<>>))>> >>)

\* messages.append({...}) for every message
MessageRecords(msgs) == Arr([i \in 1..Len(msgs) |-> MessageRecord(msgs[i])])

\* serve_conversation's result for a conversation found
ConversationRecord(conv) ==
    Obj(<< <<K("uuid"), Get(conv, K("uuid"), Empty)>>,
           <<K("name"), Get(conv, K("name"), Untitled)>>,
           <<K("summary"), Get(conv, K("summary"), Empty)>>,
           <<K("created_at"), Get(conv, K("created_at"), Empty)>>,
           <<K("updated_at"), Get(conv, K("updated_at"), Empty)>>,
           <<K("messages"), MessageRecords(Get(conv, K("chat_messages"), Arr(<<>>)).v)>> >>)

\* the text serve_search looks for the query in, for one message
SearchText(msg) == Lower(Get(msg, K("text"), Empty).v)

\* "for msg in conv.get('chat_messages', [])": some message's text holds the query
MessageHit(msgs, query_lower) ==
    \E i \in 1..Len(msgs) : Contains(SearchText(msgs[i]), query_lower)

\* "query_lower in name or query_lower in summary"
TitleHit(conv, query_lower) ==
    \/ Contains(Lower(Get(conv, K("name"), Empty).v), query_lower)
    \/ Contains(Lower(Get(conv, K("summary"), Empty).v), query_lower)

\* a faulty verdict: the messages are looked at before the name and the summary
MessageFirst(conv, query_lower) ==
    IF MessageHit(Get(conv, K("chat_messages"), Arr(<<>>)).v, query_lower) THEN "message"
    ELSE IF TitleHit(conv, query_lower) THEN "title/summary"
    ELSE "none"

\* serve_search's verdict on one conversation: "title/summary", "message" or "none"
MatchType(conv, query_lower) ==
    IF TitleHit(conv, query_lower) THEN "title/summary"
    ELSE IF MessageHit(Get(conv, K("chat_messages"), Arr(<<>>)).v, query_lower)
         THEN "message"
         ELSE "none"

SearchRecord(uuid, conv, match_type) ==
    Obj(<< <<K("uuid"), uuid>>,
           <<K("name"), Get(conv, K("name"), Untitled)>>,
           <<K("summary"), Get(conv, K("summary"), Empty)>>,
           <<K("created_at"), Get(conv, K("created_at"), Empty)>>,
           <<K("match_type"), Str(K(match_type))>> >>)

\* results.append({...}) unless the verdict is "none"
Appended(uuid, conv, match_type) ==
    IF match_type = "none" THEN <<>> ELSE <<SearchRecord(uuid, conv, match_type)>>

\* what one iteration of "for uuid, conv in convs.items()" appends to results
SearchStep(uuid, conv, query_lower) == Appended(uuid, conv, MatchType(conv, query_lower))

RECURSIVE SearchRange(_, _, _, _)
\* what the iterations for items lo..hi append, in order (the range is halved)
SearchRange(cache, query_lower, lo, hi) ==
    IF lo > hi THEN <<>>
    ELSE IF lo = hi THEN SearchStep(cache.v[lo][1], cache.v[lo][2], query_lower)
    ELSE LET mid == (lo + hi) \div 2
         IN  SearchRange(cache, query_lower, lo, mid)
                \o SearchRange(cache, query_lower, mid + 1, hi)

\* results after the loop "for uuid, conv in convs.items()"
SearchLoop(cache, query_lower) == SearchRange(cache, query_lower, 1, Len(cache.v))

SearchLimit == 100

\* a faulty response: the results are cut to the limit before they are sorted
TruncateFirst(found) == SortDesc(Take(found, SearchLimit), K("created_at"))

\* results[:100] of the sorted results
SearchResponse(found) == Take(SortDesc(found, K("created_at")), SearchLimit)

\* the body serve_search writes for a non-empty query
serve_search(cache, query) == SearchResponse(SearchLoop(cache, Lower(query)))

----------------------------------------------------------------------------
(* The source files the model is run on.                                   *)

TextBlock(s) == Obj(<< <<K("type"), Str(K("text"))>>, <<K("text"), Str(s)>> >>)
ToolUse(s) == Obj(<< <<K("type"), Str(K("tool_use"))>>, <<K("name"), Str(s)>> >>)

\* a message whose text repeats its one text block
MsgText == Obj(<< <<K("text"), Str(<<"a", "b">>)>>,
                  <<K("content"), Arr(<<TextBlock(<<"a", "b">>)>>)>> >>)
\* a message with content blocks and no text field
MsgBlocks == Obj(<< <<K("content"), Arr(<<TextBlock(<<"B">>), ToolUse(<<"b">>)>>)>> >>)

ConvA == Obj(<< <<K("uuid"), Str(<<"a">>)>>, <<K("name"), Str(<<"A">>)>>,
                <<K("summary"), Str(<<>>)>>, <<K("created_at"), Str(<<"1", "0">>)>>,
                <<K("chat_messages"), Arr(<<MsgText>>)>> >>)
ConvB == Obj(<< <<K("uuid"), Str(<<"b">>)>>, <<K("name"), Str(<<>>)>>,
                <<K("created_at"), Str(<<"9">>)>>,
                <<K("chat_messages"), Arr(<<MsgBlocks>>)>> >>)
\* a message with a text field and no content blocks
MsgShort == Obj(<< <<K("text"), Str(<<"a">>)>> >>)
\* a second record with the uuid of ConvA: two of its messages hold "a"
ConvA2 == Obj(<< <<K("uuid"), Str(<<"a">>)>>, <<K("name"), Str(<<"B">>)>>,
                 <<K("created_at"), Str(<<"2">>)>>,
                 <<K("chat_messages"), Arr(<<MsgText, MsgShort>>)>> >>)
\* a record with no uuid
ConvN == Obj(<< <<K("name"), Str(<<"a">>)>>, <<K("created_at"), Str(<<"9", "9">>)>> >>)
\* a record with a uuid and nothing else but a summary
ConvC == Obj(<< <<K("uuid"), Str(<<"c">>)>>, <<K("summary"), Str(<<"a", "B">>)>> >>)

FileAB == Dumps(Arr(<<ConvA, ConvB>>))
FileDup == Dumps(Arr(<<ConvA2, ConvN, ConvC>>))
FileOne == Dumps(ConvC)
FileEmpty == Dumps(Arr(<<>>))
\* FileAB cut off after the uuid of its second conversation
FileCut == Take(FileAB, Len(Dumps(Arr(<<ConvA>>))) + 12)
\* FileAB cut off in the second content block of its second conversation
FileCutNested == Take(FileAB, Len(FileAB) - 6)
\* a conversation object cut off: no array to salvage
FileCutObject == Take(FileOne, Len(FileOne) - 2)
\* a document that is a number
FileNumber == <<"5">>

\* the documents each of the four files is drawn from
Catalogue ==
    <<{NoFile, TextFile(FileAB), TextFile(FileCut), TextFile(FileEmpty)},
      {NoFile, BadFile, TextFile(FileDup), TextFile(FileNumber)},
      {NoFile, TextFile(FileCutNested), TextFile(FileOne)},
      {NoFile, TextFile(FileCutObject), TextFile(FileAB)}>>

FileSets == {fs \in [1..NumFiles -> UNION {Catalogue[i] : i \in 1..NumFiles}] :
                \A i \in 1..NumFiles : fs[i] \in Catalogue[i]}

\* an id parameter of the request: not in the query string, or there with a value
NoParam == [given |-> FALSE, v |-> <<>>]
Param(s) == [given |-> TRUE, v |-> s]

IdParams == {NoParam} \cup {Param(s) : s \in {<<>>, <<"a">>, <<"b">>, <<"z">>}}
QueryParams == {NoParam} \cup {Param(s) : s \in {<<>>, <<"a">>, <<"B">>, <<"a", "b">>, <<"z">>}}

\* load_conversations calls that read the files, counted up to this many
MaxReads == 3

----------------------------------------------------------------------------
(* server.py: main and the request handlers.                               *)

NoResponse == [kind |-> "none", req |-> NoParam, status |-> 0, body |-> Null]

\* urllib.parse.parse_qs(...).get(name, [default])[0]: a blank value is dropped
QueryValue(param, default) ==
    IF param.given /\ param.v # <<>> THEN Str(param.v) ELSE default

\* the state load_conversations leaves, r being what it returned
AfterLoad(r) ==
    /\ conversations_cache' = r.cache
    /\ reads' = reads + (IF r.read THEN 1 ELSE 0)

\* main(): after the pre-load; an exception ends the process before it serves
MainLoaded(r) ==
    /\ AfterLoad(r)
    /\ pc' = IF r.raised THEN "crashed" ELSE "serving"

\* main()
Main ==
    /\ pc = "start"
    /\ MainLoaded(load_conversations(conversations_cache, files))
    /\ UNCHANGED <<files, resp, splitVars>>

\* a handler that has called load_conversations (r) and writes response, unless
\* load_conversations raised, which leaves the request without one
Handled(r, response) ==
    /\ AfterLoad(r)
    /\ resp' = IF r.raised
               THEN [kind |-> response.kind, req |-> response.req, status |-> 0,
                     body |-> Null]
               ELSE response

\* a request whose handler loads: the server is up (calls that read the files are
\* counted up to MaxReads)
Serving == pc = "serving" /\ (CacheHit(conversations_cache) \/ reads < MaxReads)

\* serve_conversation_list after its call of load_conversations
ListLoaded(r) ==
    Handled(r, [kind |-> "list", req |-> NoParam, status |-> 200,
                body |-> get_conversation_list(r.cache)])

\* GET /api/conversations
serve_conversation_list ==
    /\ Serving
    /\ ListLoaded(load_conversations(conversations_cache, files))
    /\ UNCHANGED <<files, pc, splitVars>>

\* a faulty response: the "if not conv" test is left out
MissingAsFound(cache, req, uuid) ==
    [kind |-> "conversation", req |-> req, status |-> 200,
     body |-> IF HasKey(cache, uuid) THEN ConversationRecord(Item(cache, uuid)) ELSE Null]

\* get_conversation(uuid) and serve_conversation's response
ConversationResponse(cache, req, uuid) ==
    IF ~HasKey(cache, uuid) \/ ~Truthy(Item(cache, uuid))
    THEN [kind |-> "conversation", req |-> req, status |-> 404, body |-> Null]
    ELSE [kind |-> "conversation", req |-> req, status |-> 200,
          body |-> ConversationRecord(Item(cache, uuid))]

\* serve_conversation after its call of load_conversations
ConversationLoaded(r, req, uuid) == Handled(r, ConversationResponse(r.cache, req, uuid))

\* do_GET for /api/conversation, uuid being query.get('id', [None])[0]
ConversationRequest(req, uuid) ==
    IF Truthy(uuid)
    THEN /\ Serving
         /\ ConversationLoaded(load_conversations(conversations_cache, files), req, uuid)
         /\ UNCHANGED <<files, pc, splitVars>>
    ELSE /\ pc = "serving"
         /\ resp' = [kind |-> "conversation", req |-> req, status |-> 400, body |-> Null]
         /\ UNCHANGED <<files, conversations_cache, pc, reads, splitVars>>

\* GET /api/conversation
serve_conversation == \E req \in IdParams : ConversationRequest(req, QueryValue(req, Null))

\* serve_search after its call of load_conversations
SearchLoaded(r, req, query) ==
    Handled(r, [kind |-> "search", req |-> req, status |-> 200,
                body |-> serve_search(r.cache, query.v)])

\* serve_search(q), query being query.get('q', [''])[0]
SearchRequest(req, query) ==
    IF ~Truthy(query)
    THEN /\ pc = "serving"
         /\ resp' = [kind |-> "search", req |-> req, status |-> 200, body |-> <<>>]
         /\ UNCHANGED <<files, conversations_cache, pc, reads, splitVars>>
    ELSE /\ Serving
         /\ SearchLoaded(load_conversations(conversations_cache, files), req, query)
         /\ UNCHANGED <<files, pc, splitVars>>

\* GET /api/search
serve_search_request == \E req \in QueryParams : SearchRequest(req, QueryValue(req, Empty))

\* GET /
serve_index ==
    /\ pc = "serving"
    /\ resp' = [kind |-> "index", req |-> NoParam, status |-> 200, body |-> Null]
    /\ UNCHANGED <<files, conversations_cache, pc, reads, splitVars>>

\* any other path: SimpleHTTPRequestHandler serves the working directory
serve_static ==
    /\ pc = "serving"
    /\ \E status \in {200, 404} :
          resp' = [kind |-> "static", req |-> NoParam, status |-> status, body |-> Null]
    /\ UNCHANGED <<files, conversations_cache, pc, reads, splitVars>>

ServerNext ==
    \/ Main
    \/ serve_conversation_list
    \/ serve_conversation
    \/ serve_search_request
    \/ serve_index
    \/ serve_static

----------------------------------------------------------------------------
(* split_json.py: split_conversations.                                     *)

MB == 1024 * 1024

MAX_CHUNK_SIZE == 45 * 1024 * 1024

\* the bytes of the run of characters a symbol stands for
ByteLen(sym) ==
    CASE sym = "~10MB" -> 10 * MB
      [] sym = "~20MB" -> 20 * MB
      [] sym = "~46MB" -> 46 * MB
      [] sym = "~60MB" -> 60 * MB
      [] sym \in {"uuid", "name", "text", "type", "null"} -> 4
      [] sym = "summary" -> 7
      [] sym = "content" -> 7
      [] sym = "tool_use" -> 8
      [] sym = "created_at" -> 10
      [] sym = "updated_at" -> 10
      [] sym = "chat_messages" -> 13
      [] OTHER -> 1

RECURSIVE BytesRange(_, _, _)
\* the bytes of text[lo..hi], halving the range
BytesRange(text, lo, hi) ==
    IF lo > hi THEN 0
    ELSE IF lo = hi THEN ByteLen(text[lo])
    ELSE LET mid == (lo + hi) \div 2
         IN  BytesRange(text, lo, mid) + BytesRange(text, mid + 1, hi)

\* len(text.encode('utf-8'))
Bytes(text) == BytesRange(text, 1, Len(text))

\* len(json.dumps(conv).encode('utf-8'))
ConvSize(conv) == Bytes(Dumps(conv))

\* fixed = content[:last_complete+1] + ']' and its parse; a second JSONDecodeError
\* goes to the outer except
SplitSalvageAt(content, last_complete) ==
    IF last_complete > 0 /\ StartsWithBracket(Strip(content))
    THEN Recovered(Loads(SubSeq(content, 1, last_complete + 1) \o <<"]">>))
    ELSE <<>>

\* the recovery of the except json.JSONDecodeError branch
SplitSalvage(content) == SplitSalvageAt(content, RFindCloseComma(content))

\* what a file read as content adds, json.loads having given data
SplitExtended(content, data) ==
    IF data.ok
    THEN IF data.val.t = "arr" THEN data.val.v ELSE <<data.val>>
    ELSE SplitSalvage(content)

\* what one file adds to all_conversations
SplitLoadFile(f) ==
    IF ~f.exists \/ ~f.readable THEN <<>> ELSE SplitExtended(f.content, Loads(f.content))

RECURSIVE SplitLoadFrom(_, _, _)
SplitLoadFrom(fs, i, acc) ==
    IF i > NumFiles THEN acc ELSE SplitLoadFrom(fs, i + 1, acc \o SplitLoadFile(fs[i]))

\* the loop over range(1, 5)
SplitLoad ==
    /\ spc = "start"
    /\ all_conversations' = SplitLoadFrom(files, 1, <<>>)
    /\ spc' = "loaded"
    /\ UNCHANGED <<files, serverVars, chunks, current_chunk, current_size, next_item,
                   manifest>>

\* x.get('created_at', '') raises AttributeError for a record that is no dict
SortRaises(all) == \E i \in 1..Len(all) : all[i].t # "obj"

\* all_conversations.sort(key=lambda x: x.get('created_at', ''), reverse=True)
SplitSort ==
    /\ spc = "loaded"
    /\ IF SortRaises(all_conversations)
       THEN /\ spc' = "crashed"
            /\ UNCHANGED all_conversations
       ELSE /\ spc' = "packing"
            /\ all_conversations' = SortDesc(all_conversations, K("created_at"))
    /\ UNCHANGED <<files, serverVars, chunks, current_chunk, current_size, next_item,
                   manifest>>

\* a faulty overflow test: "and current_chunk" is left out
OverflowsEmptyChunk(size, conv_size, chunk) == size + conv_size > MAX_CHUNK_SIZE

\* a faulty overflow test: the size is compared before the item is counted in
OverflowsAfter(size, conv_size, chunk) == size > MAX_CHUNK_SIZE /\ chunk # <<>>

\* the overflow test of the packing loop
Overflows(size, conv_size, chunk) == size + conv_size > MAX_CHUNK_SIZE /\ chunk # <<>>

\* the body of the packing loop for conv, of serialized size conv_size
Pack(conv, conv_size) ==
    IF Overflows(current_size, conv_size, current_chunk)
    THEN /\ chunks' = Append(chunks, current_chunk)
         /\ current_chunk' = <<conv>>
         /\ current_size' = conv_size
    ELSE /\ chunks' = chunks
         /\ current_chunk' = Append(current_chunk, conv)
         /\ current_size' = current_size + conv_size

\* one iteration of "for conv in all_conversations"
PackItem ==
    /\ spc = "packing"
    /\ next_item <= Len(all_conversations)
    /\ Pack(all_conversations[next_item], ConvSize(all_conversations[next_item]))
    /\ next_item' = next_item + 1
    /\ UNCHANGED <<files, serverVars, all_conversations, manifest, spc>>

\* a faulty end of the packing loop: the chunk being filled is not appended
DropLastChunk ==
    /\ spc = "packing"
    /\ next_item > Len(all_conversations)
    /\ spc' = "packed"
    /\ UNCHANGED <<files, serverVars, all_conversations, chunks, current_chunk,
                   current_size, next_item, manifest>>

\* if current_chunk: chunks.append(current_chunk)
PackFinish ==
    /\ spc = "packing"
    /\ next_item > Len(all_conversations)
    /\ chunks' = IF current_chunk # <<>> THEN Append(chunks, current_chunk) ELSE chunks
    /\ spc' = "packed"
    /\ UNCHANGED <<files, serverVars, all_conversations, current_chunk, current_size,
                   next_item, manifest>>

\* round(st_size / (1024 * 1024), 1), in tenths of a megabyte
SizeTenths(bytes) == (bytes * 10 + MB \div 2) \div MB

\* the manifest entry of the i-th chunk (file conversations_{i:02d}.json)
ChunkEntry(i, chunk) ==
    [file |-> i, count |-> Len(chunk),
     size_mb |-> SizeTenths(Bytes(DumpsCompact(Arr(chunk))))]

\* the chunk files and manifest.json
WriteManifest ==
    /\ spc = "packed"
    /\ manifest' = [total_conversations |-> Len(all_conversations),
                    chunks |-> [i \in 1..Len(chunks) |-> ChunkEntry(i, chunks[i])]]
    /\ spc' = "done"
    /\ UNCHANGED <<files, serverVars, all_conversations, chunks, current_chunk,
                   current_size, next_item>>

SplitNext ==
    \/ SplitLoad
    \/ SplitSort
    \/ PackItem
    \/ PackFinish
    \/ WriteManifest

\* the partitioner's source files: conversations that carry bulk message text
Bulky(uuid, created_at, bulk) ==
    Obj(<< <<K("uuid"), Str(uuid)>>, <<K("created_at"), Str(created_at)>>,
           <<K("chat_messages"), Arr(<<Obj(<< <<K("text"), Str(<<bulk>>)>> >>)>>)>> >>)

Big20a == Bulky(<<"a">>, <<"3">>, "~20MB")
Big20b == Bulky(<<"b">>, <<"2">>, "~20MB")
Big10c == Bulky(<<"c">>, <<"1">>, "~10MB")
\* a second record with uuid a, alone over the threshold
Big46a == Bulky(<<"a">>, <<"2">>, "~46MB")
\* the newest record, larger than any file the output is meant to hold
Big60B == Bulky(<<"B">>, <<"4">>, "~60MB")

SplitCatalogue ==
    <<{NoFile, TextFile(Dumps(Arr(<<Big10c, Big20a, Big20b>>))),
       TextFile(Dumps(Arr(<<Big20b, Big46a>>)))},
      {NoFile, BadFile, TextFile(Dumps(Big46a)), TextFile(FileDup)},
      {NoFile, TextFile(Dumps(Arr(<<Big20a, ConvC, Big10c>>))), TextFile(FileNumber)},
      {NoFile, TextFile(FileCutNested),
       TextFile(Take(Dumps(Arr(<<Big20b, Big20a, Big10c>>)), 60)),
       TextFile(Dumps(Big60B))}>>

SplitFileSets == {fs \in [1..NumFiles -> UNION {SplitCatalogue[i] : i \in 1..NumFiles}] :
                     \A i \in 1..NumFiles : fs[i] \in SplitCatalogue[i]}

ServerStart ==
    /\ conversations_cache = Obj(<<>>)
    /\ pc = "start"
    /\ reads = 0
    /\ resp = NoResponse

SplitStart ==
    /\ all_conversations = <<>>
    /\ chunks = <<>>
    /\ current_chunk = <<>>
    /\ current_size = 0
    /\ next_item = 1
    /\ manifest = Null
    /\ spc = "start"

Init ==
    /\ files \in FileSets
    /\ ServerStart
    /\ SplitStart

\* the server on the small documents
Spec == Init /\ [][ServerNext]_vars

InitSplit ==
    /\ files \in SplitFileSets
    /\ ServerStart
    /\ SplitStart

\* the partitioner on the bulky documents
SpecSplit == InitSplit /\ [][SplitNext]_vars

\* an array of conversations cut off inside its k-th element, k >= 2: arr is the
\* array, cut the number of symbols of json.dumps(arr) that are left
ElementStart(arr, k) == Len(Dumps(Arr(SubSeq(arr, 1, k - 1)))) + 2

SalvageArrays == {<<ConvA, ConvB>>, <<ConvB, ConvA, ConvC>>, <<ConvC, ConvB, ConvA>>}

SalvageCases ==
    {[arr |-> arr, k |-> k, cut |-> cut] :
        arr \in SalvageArrays, k \in 2..3, cut \in 1..(2 * Len(FileAB))}

CutInside(case) ==
    /\ case.k <= Len(case.arr)
    /\ case.cut >= ElementStart(case.arr, case.k)
    /\ case.cut <= ElementStart(case.arr, case.k) + Len(Dumps(case.arr[case.k])) - 2

CutText(case) == Take(Dumps(Arr(case.arr)), case.cut)

InitSalvage ==
    /\ \E case \in SalvageCases :
          /\ CutInside(case)
          /\ files = <<TextFile(CutText(case)), NoFile, NoFile, NoFile>>
    /\ ServerStart
    /\ SplitStart

LoadNext ==
    \/ Main
    \/ SplitLoad

\* the two loaders on truncated arrays
SpecSalvage == InitSalvage /\ [][LoadNext]_vars

RECURSIVE Digits(_)
\* str(n) for n >= 0
Digits(n) == IF n < 10 THEN <<CodePoints[n + 1]>>
             ELSE Append(Digits(n \div 10), CodePoints[(n % 10) + 1])

\* the i-th conversation of a large export: later conversations are older
BigConv(i) ==
    Obj(<< <<K("uuid"), Str(Digits(i))>>,
           <<K("name"), Str(IF i % 10 = 0 THEN <<"a", "b">> ELSE <<"a">>)>>,
           <<K("created_at"), Str(Digits(200 - i))>> >>)

\* the conversations lo..hi of the export, as one file
BigFile(lo, hi) ==
    IF lo > hi THEN NoFile
    ELSE TextFile(Dumps(Arr([i \in 1..(hi - lo + 1) |-> BigConv(lo + i - 1)])))

\* an export of n conversations in four files of (almost) equal length
BigFiles(n) ==
    LET q == (n + NumFiles - 1) \div NumFiles
    IN  [f \in 1..NumFiles |->
            BigFile((f - 1) * q + 1, IF f * q < n THEN f * q ELSE n)]

\* the largest export has this many conversations
MaxBig == 102

InitBig ==
    /\ \E n \in (MaxBig - 7)..MaxBig : files = BigFiles(n)
    /\ ServerStart
    /\ SplitStart

\* the server on exports larger than the search limit
SpecBig == InitBig /\ [][ServerNext]_vars

----------------------------------------------------------------------------
(* The properties claimed of the program.                                  *)

\* a document an export holds: a conversation object or an array of them
ValidDocument(data) ==
    /\ data.ok
    /\ \/ data.val.t = "obj"
       \/ data.val.t = "arr" /\ \A i \in 1..Len(data.val.v) : data.val.v[i].t = "obj"

\* every source file that is there is a readable, valid document
ValidFiles ==
    \A i \in 1..NumFiles :
        files[i].exists => files[i].readable /\ ValidDocument(Loads(files[i].content))

\* C1: with valid source files, once the first load has completed (the server
\* serves), no later call of load_conversations reads the files and no request
\* changes the store.
C1_LoadedOnce ==
    [][ValidFiles /\ pc = "serving"
          => reads' = reads /\ conversations_cache' = conversations_cache]_vars

\* the record r is a conversation object that carries the uuid u
Carries(r, u) == r.t = "obj" /\ HasKey(r, K("uuid")) /\ Item(r, K("uuid")) = u

\* the last record of the sequence all that carries the uuid u
LastCarrying(all, u) == all[Max({j \in 1..Len(all) : Carries(all[j], u)})]

\* the store holds, for every uuid of the sequence all, the last record carrying
\* it, and nothing else
LastWins(cache, all) ==
    /\ \A i \in 1..Len(all) :
          all[i].t = "obj" /\ HasKey(all[i], K("uuid"))
             => /\ HasKey(cache, Item(all[i], K("uuid")))
                /\ Item(cache, Item(all[i], K("uuid")))
                      = LastCarrying(all, Item(all[i], K("uuid")))
    /\ \A p \in 1..Len(cache.v) :
          /\ \E i \in 1..Len(all) : Carries(all[i], cache.v[p][1])
          /\ cache.v[p][2] = LastCarrying(all, cache.v[p][1])
    /\ \A p, q \in 1..Len(cache.v) : cache.v[p][1] = cache.v[q][1] => p = q

\* C2: after load_conversations has returned, the store maps every uuid of the
\* loaded record sequence (files 1..4 in order, records in file order) to the last
\* record carrying it; earlier records of that uuid and records with no uuid are
\* not in the store.
C2_LastRecordWins == pc = "serving" => LastWins(conversations_cache, LoadAll(files))

\* the uuid a occurs in file 1 and again in file 2, which also holds a record with
\* no uuid; the store holds the record of file 2
C2_Witness ==
    /\ pc = "serving"
    /\ files[1] = TextFile(FileAB)
    /\ files[2] = TextFile(FileDup)
    /\ Item(conversations_cache, Str(<<"a">>)) = ConvA2
    /\ \A p \in 1..Len(conversations_cache.v) : conversations_cache.v[p][2] # ConvN

\* every uuid-bearing record that the sequence loaded holds is in the store
AllStored(cache, loaded) ==
    \A j \in 1..Len(loaded) :
        loaded[j].t = "obj" /\ HasKey(loaded[j], K("uuid"))
           => HasKey(cache, Item(loaded[j], K("uuid")))

\* C3: whatever the four files are, load_conversations returns a store (the
\* pre-load never ends the process), and the store holds every uuid-bearing record
\* of every file that parsed or was salvaged.
C3_NeverAborts ==
    pc # "start"
       => /\ pc = "serving"
          /\ \A i \in 1..NumFiles : AllStored(conversations_cache, LoadFile(files[i]))

\* the part of the k-th element that the cut leaves
Retained(case) == SubSeq(CutText(case), ElementStart(case.arr, case.k), case.cut)

\* '},' occurs in the text
HasCloseComma(text) ==
    \E j \in 1..(Len(text) - 1) : text[j] = "}" /\ text[j + 1] = ","

\* file 1 is the array of the case, cut off inside its k-th element
IsCase(case) ==
    /\ case.cut = Len(files[1].content)
    /\ CutInside(case)
    /\ CutText(case) = files[1].content

\* the store that holds the records of the sequence, in their order
StoreOf(records) ==
    Obj([i \in 1..Len(records) |-> <<Item(records[i], K("uuid")), records[i]>>])

\* both loaders have yielded exactly the first k-1 elements of the array
YieldsFirst(case) ==
    /\ pc # "start" => conversations_cache = StoreOf(SubSeq(case.arr, 1, case.k - 1))
    /\ spc # "start" => all_conversations = SubSeq(case.arr, 1, case.k - 1)

\* C4 as claimed: for an array cut off inside its k-th element (k >= 2), each
\* loader yields exactly the first k-1 elements, in their order.
C4_SalvageAny == \A case \in SalvageCases : IsCase(case) => YieldsFirst(case)

\* C4: for an array cut off inside its k-th element (k >= 2), where what is left of
\* the k-th element holds no '},', each loader yields exactly the first k-1 elements
\* in their order and nothing of the k-th.
C4_SalvageFlat ==
    \A case \in SalvageCases :
        IsCase(case) /\ ~HasCloseComma(Retained(case)) => YieldsFirst(case)

\* an array cut off inside its third element, with no '},' in what is left of it:
\* both loaders have run and yielded the first two elements
C4_Witness ==
    /\ pc = "serving"
    /\ spc = "loaded"
    /\ Len(all_conversations) = 2
    /\ Len(conversations_cache.v) = 2
    /\ \E case \in SalvageCases :
          IsCase(case) /\ case.k = 3 /\ ~HasCloseComma(Retained(case))

\* x.get('created_at', '') of an element of a response
CreatedAt(rec) == Get(rec, K("created_at"), Empty).v

\* no element has a created_at smaller than that of its successor
NonIncreasing(body) ==
    \A i \in 1..(Len(body) - 1) : ~StrLess(CreatedAt(body[i]), CreatedAt(body[i + 1]))

\* C5: the list response and every search response are non-increasing in
\* created_at under string comparison, a missing created_at counting as ''.
C5_SortedDescending ==
    resp.kind \in {"list", "search"} /\ resp.status = 200 => NonIncreasing(resp.body)

\* a list of three conversations in an order the store does not have: the last has
\* no created_at, and "9" stands before "10"
C5_Witness ==
    /\ resp.kind = "list"
    /\ resp.status = 200
    /\ Len(resp.body) = 3
    /\ CreatedAt(resp.body[1]) = <<"9">>
    /\ CreatedAt(resp.body[2]) = <<"1", "0">>
    /\ CreatedAt(resp.body[3]) = <<>>
    /\ conversations_cache.v[1][1] = Str(<<"a">>)

\* the response answers a search for a query that is not empty
SearchAnswered == resp.kind = "search" /\ resp.status = 200 /\ resp.req.given /\ resp.req.v # <<>>

\* the flattened content of some message of the conversation holds the query
FlatHit(conv, query_lower) ==
    \E i \in 1..Len(Get(conv, K("chat_messages"), Arr(<<>>)).v) :
        Contains(Lower(format_message_content(Get(conv, K("chat_messages"), Arr(<<>>)).v[i])),
                 query_lower)

\* the name or the summary of the conversation holds the query
TitleHolds(conv, query_lower) ==
    \/ Contains(Lower(Get(conv, K("name"), Empty).v), query_lower)
    \/ Contains(Lower(Get(conv, K("summary"), Empty).v), query_lower)

\* the response lists the uuid with the match type
Tagged(body, uuid, type) ==
    \E j \in 1..Len(body) :
        Item(body[j], K("uuid")) = uuid /\ Item(body[j], K("match_type")) = Str(K(type))

\* C6: for a non-empty query, a conversation whose name and summary do not hold the
\* query is in the search response, tagged "message", if and only if the flattened
\* content (format_message_content) of one of its messages holds the query, case
\* ignored.
C6_MatchesFlattenedContent ==
    SearchAnswered =>
        \A p \in 1..Len(conversations_cache.v) :
            ~TitleHolds(conversations_cache.v[p][2], Lower(resp.req.v))
               => (Tagged(resp.body, conversations_cache.v[p][1], "message")
                      <=> FlatHit(conversations_cache.v[p][2], Lower(resp.req.v)))

\* the name the list is to show: "Untitled" when the name is absent or empty
ShownName(conv) ==
    IF HasKey(conv, K("name")) /\ Item(conv, K("name")).v # <<>>
    THEN Item(conv, K("name")) ELSE Untitled

\* the record the list is to hold for a conversation of the store
Projection(uuid, conv) ==
    Obj(<< <<K("uuid"), uuid>>,
           <<K("name"), ShownName(conv)>>,
           <<K("summary"), Get(conv, K("summary"), Empty)>>,
           <<K("created_at"), Get(conv, K("created_at"), Empty)>>,
           <<K("updated_at"), Get(conv, K("updated_at"), Empty)>>,
           <<K("message_count"), PyInt(Len(Get(conv, K("chat_messages"), Arr(<<>>)).v))>> >>)

\* C7: the list response holds exactly one record per uuid of the store, and it is
\* the projection of the conversation: its name, or "Untitled" when the name is
\* absent or empty, its summary or '', created_at, updated_at, and the number of its
\* messages.
C7_ListProjection ==
    resp.kind = "list" /\ resp.status = 200
       => /\ Len(resp.body) = Len(conversations_cache.v)
          /\ \A p \in 1..Len(conversations_cache.v) :
                /\ Cardinality({j \in 1..Len(resp.body) :
                        Item(resp.body[j], K("uuid")) = conversations_cache.v[p][1]}) = 1
                /\ \E j \in 1..Len(resp.body) :
                      resp.body[j] = Projection(conversations_cache.v[p][1],
                                                conversations_cache.v[p][2])

\* the response to GET /api/conversation is the full record of the id given
FullRecord(response, cache) ==
    /\ HasKey(cache, Str(response.req.v))
    /\ response.body = ConversationRecord(Item(cache, Str(response.req.v)))

\* C8 as claimed: 400 exactly when the id parameter is missing, 404 exactly when an
\* id is given that is no key of the store, 200 with the full record exactly when
\* the id given is a key of the store; the store is left as it was.
C8_StatusByPresence ==
    [][resp'.kind = "conversation"
          => /\ resp'.status = 400 <=> ~resp'.req.given
             /\ resp'.status = 404
                   <=> resp'.req.given /\ ~HasKey(conversations_cache', Str(resp'.req.v))
             /\ resp'.status = 200
                   <=> resp'.req.given /\ FullRecord(resp', conversations_cache')
             /\ conversations_cache' = conversations_cache]_vars

\* an id parameter that is there and not empty
IdGiven(req) == req.given /\ req.v # <<>>

\* C8: 400 exactly when the id parameter is missing or empty, 404 exactly when a
\* non-empty id is given that is no key of the store, 200 with the full record
\* exactly when the non-empty id given is a key of the store; the store is left as
\* it was.
C8_StatusByValue ==
    [][resp'.kind = "conversation"
          => /\ resp'.status = 400 <=> ~IdGiven(resp'.req)
             /\ resp'.status = 404
                   <=> IdGiven(resp'.req) /\ ~HasKey(conversations_cache', Str(resp'.req.v))
             /\ resp'.status = 200
                   <=> IdGiven(resp'.req) /\ FullRecord(resp', conversations_cache')
             /\ conversations_cache' = conversations_cache]_vars

\* the three outcomes are all met: here an id that is there with an empty value has
\* been answered 400 by a server whose store holds conversations
C8_Witness ==
    /\ resp.kind = "conversation"
    /\ resp.status = 400
    /\ resp.req = Param(<<>>)
    /\ Len(conversations_cache.v) = 3

\* the conversation matches the query: by its name, its summary or the text of one
\* of its messages
Matching(conv, query_lower) ==
    \/ TitleHolds(conv, query_lower)
    \/ \E i \in 1..Len(Get(conv, K("chat_messages"), Arr(<<>>)).v) :
          Contains(Lower(Get(Get(conv, K("chat_messages"), Arr(<<>>)).v[i], K("text"),
                             Empty).v), query_lower)

\* the positions in the store of the conversations that match
Matches(cache, query_lower) ==
    {p \in 1..Len(cache.v) : Matching(cache.v[p][2], query_lower)}

\* the response lists the uuid
Returned(body, uuid) == \E j \in 1..Len(body) : Item(body[j], K("uuid")) = uuid

\* body is the first SearchLimit of the matches in descending order of created_at
FirstOfSorted(body, cache, query_lower) ==
    /\ Len(body) = Min({SearchLimit, Cardinality(Matches(cache, query_lower))})
    /\ NonIncreasing(body)
    /\ \A j \in 1..Len(body) :
          \E p \in Matches(cache, query_lower) :
             /\ Item(body[j], K("uuid")) = cache.v[p][1]
             /\ CreatedAt(body[j]) = CreatedAt(cache.v[p][2])
    /\ \A i, j \in 1..Len(body) :
          Item(body[i], K("uuid")) = Item(body[j], K("uuid")) => i = j
    /\ \A p \in Matches(cache, query_lower) :
          ~Returned(body, cache.v[p][1])
             => \A j \in 1..Len(body) :
                   ~StrLess(CreatedAt(body[j]), CreatedAt(cache.v[p][2]))

\* C9: a search response has at most 100 elements and is the first 100 (all, when
\* there are fewer) of the matching conversations in descending order of
\* created_at, so that no match left out has a created_at greater than one
\* returned; an empty or missing query is answered [].
C9_FirstHundredOfSorted ==
    resp.kind = "search" /\ resp.status = 200
       => /\ Len(resp.body) <= 100
          /\ IF SearchAnswered
             THEN FirstOfSorted(resp.body, conversations_cache, Lower(resp.req.v))
             ELSE resp.body = <<>>

\* more than 100 conversations match, and 100 are returned
C9_Witness ==
    /\ SearchAnswered
    /\ Len(resp.body) = 100
    /\ Cardinality(Matches(conversations_cache, Lower(resp.req.v))) > 100

\* the number of elements of seq that equal x
Count(seq, x) == Cardinality({i \in 1..Len(seq) : seq[i] = x})

\* the two sequences hold the same records, each as many times
SameRecords(a, b) ==
    /\ Len(a) = Len(b)
    /\ \A i \in 1..Len(a) : Count(a, a[i]) = Count(b, a[i])

RECURSIVE SumCounts(_, _)
\* the sum of the count fields of the first n manifest entries
SumCounts(entries, n) ==
    IF n = 0 THEN 0 ELSE SumCounts(entries, n - 1) + entries[n].count

\* the chunks, one after the other, are the loaded records in descending order
\* of created_at
ChunksHoldAll(joined, loaded) ==
    /\ SameRecords(joined, loaded)
    /\ NonIncreasing(joined)

\* C10: when the partitioner has written its manifest, the chunks in index order,
\* one after the other, are exactly the loaded records in descending order of
\* created_at, records of one uuid kept apart, no chunk is empty, and the
\* manifest's total_conversations is the sum of the count fields of its chunks.
C10_NothingLostOrInvented ==
    spc = "done"
       => /\ ChunksHoldAll(Flatten(chunks, <<>>), SplitLoadFrom(files, 1, <<>>))
          /\ \A c \in 1..Len(chunks) : chunks[c] # <<>>
          /\ Len(manifest.chunks) = Len(chunks)
          /\ \A c \in 1..Len(chunks) : manifest.chunks[c].count = Len(chunks[c])
          /\ manifest.total_conversations
                = SumCounts(manifest.chunks, Len(manifest.chunks))

\* several chunks have been written, and two records of the uuid a are among them
C10_Witness ==
    /\ spc = "done"
    /\ Len(chunks) >= 3
    /\ Count(Flatten(chunks, <<>>), Big20a) >= 1
    /\ Count(Flatten(chunks, <<>>), Big46a) >= 1

RECURSIVE SumSizes(_, _)
\* the sum of the serialized sizes of the first n items of the chunk
SumSizes(chunk, n) ==
    IF n = 0 THEN 0 ELSE SumSizes(chunk, n - 1) + ConvSize(chunk[n])

\* the summed serialized size of the items of the chunk
ChunkSize(chunk) == SumSizes(chunk, Len(chunk))

\* C11: every chunk split_conversations produces is under 50MB: the summed
\* serialized size of its items is below 50 * 1024 * 1024 bytes.
C11_ChunksUnderFifty ==
    \A c \in 1..Len(chunks) : ChunkSize(chunks[c]) < 50 * 1024 * 1024

\* the step packs the item y by the greedy rule: a boundary is placed before y if
\* and only if the current chunk is not empty and its size plus that of y exceeds
\* the threshold, and y then opens the next chunk
PackedGreedily(y) ==
    IF current_chunk # <<>> /\ ChunkSize(current_chunk) + ConvSize(y) > MAX_CHUNK_SIZE
    THEN chunks' = Append(chunks, current_chunk) /\ current_chunk' = <<y>>
    ELSE chunks' = chunks /\ current_chunk' = Append(current_chunk, y)

\* every chunk of two or more items, closed or being filled, is within the threshold
SharedChunksFit ==
    /\ \A c \in 1..Len(chunks) :
          Len(chunks[c]) >= 2 => ChunkSize(chunks[c]) <= MAX_CHUNK_SIZE
    /\ Len(current_chunk) >= 2 => ChunkSize(current_chunk) <= MAX_CHUNK_SIZE

\* items of 20, 20 and 10 MB with the threshold of 45 MB are packed as {1, 2}, {3}
TwentyTwentyTen ==
    spc = "done" /\ all_conversations = <<Big20a, Big20b, Big10c>>
       => chunks = << <<Big20a, Big20b>>, <<Big10c>> >>

\* C12: every step of the packing loop follows the greedy rule (a chunk boundary
\* immediately before item y if and only if the current chunk is non-empty and the
\* summed size of its items plus size(y) exceeds MAX_CHUNK_SIZE, y then being the
\* first item of the next chunk); hence every chunk of two or more items has a
\* total size of at most MAX_CHUNK_SIZE, and sizes 20, 20, 10 give chunks {1, 2}
\* and {3}.
C12_GreedyPacking ==
    /\ [][spc = "packing" /\ next_item' # next_item
             => PackedGreedily(all_conversations[next_item])]_vars
    /\ [](SharedChunksFit /\ TwentyTwentyTen)

\* the items of 20, 20 and 10 MB have been packed and written
C12_Witness ==
    /\ spc = "done"
    /\ all_conversations = <<Big20a, Big20b, Big10c>>
    /\ Len(chunks) = 2
    /\ manifest.chunks[1].count = 2

\* an item whose serialized size alone exceeds the threshold
Oversized(conv) == ConvSize(conv) > MAX_CHUNK_SIZE

\* a chunk that holds an oversized item holds nothing else
AloneInChunk(chunk) ==
    (\E i \in 1..Len(chunk) : Oversized(chunk[i])) => Len(chunk) = 1

\* the packing loop has placed one item per iteration, in order: after the
\* iterations for the items before next_item, exactly those items are placed
OnePass ==
    /\ next_item <= Len(all_conversations) + 1
    /\ Flatten(chunks, <<>>) \o current_chunk = SubSeq(all_conversations, 1, next_item - 1)

\* the packing loop has ended after one iteration per item, every item placed
AllPlaced ==
    /\ next_item = Len(all_conversations) + 1
    /\ Flatten(chunks, <<>>) = all_conversations

\* C13: an item whose serialized size alone exceeds MAX_CHUNK_SIZE is, wherever it
\* stands in the sorted sequence, in a chunk that holds that item and no other, and
\* the packing loop ends after one pass over the sequence with every item placed.
C13_OversizedAlone ==
    /\ \A c \in 1..Len(chunks) : AloneInChunk(chunks[c])
    /\ AloneInChunk(current_chunk)
    /\ spc = "packing" => OnePass
    /\ spc \in {"packed", "done"} => AllPlaced

\* the sorted sequence begins and ends with an oversized item, an item that fits
\* stands between them, and each of the three has a chunk of its own
C13_Witness ==
    /\ spc = "done"
    /\ all_conversations = <<Big60B, Big20b, Big46a>>
    /\ chunks = << <<Big60B>>, <<Big20b>>, <<Big46a>> >>

\* the number of messages of the conversation whose text holds the query
TextHits(conv, query_lower) ==
    Cardinality({i \in 1..Len(Get(conv, K("chat_messages"), Arr(<<>>)).v) :
        Contains(Lower(Get(Get(conv, K("chat_messages"), Arr(<<>>)).v[i], K("text"),
                           Empty).v), query_lower)})

\* the element of a search response is tagged as the conversation it names asks:
\* "title/summary" if its name or summary holds the query, else "message", and
\* then one of its messages holds the query
TaggedRight(rec, conv, query_lower) ==
    IF TitleHolds(conv, query_lower)
    THEN Item(rec, K("match_type")) = Str(K("title/summary"))
    ELSE /\ Item(rec, K("match_type")) = Str(K("message"))
         /\ TextHits(conv, query_lower) >= 1
         /\ FlatHit(conv, query_lower)

\* C14: in a search response every uuid occurs at most once, however many messages
\* of the conversation match; a conversation whose name or summary holds the query
\* is listed as "title/summary", and one is listed as "message" only when neither
\* holds it and one of its messages matches.
C14_OncePerConversation ==
    SearchAnswered =>
        /\ \A i, j \in 1..Len(resp.body) :
              Item(resp.body[i], K("uuid")) = Item(resp.body[j], K("uuid")) => i = j
        /\ \A j \in 1..Len(resp.body) :
              /\ HasKey(conversations_cache, Item(resp.body[j], K("uuid")))
              /\ TaggedRight(resp.body[j],
                             Item(conversations_cache, Item(resp.body[j], K("uuid"))),
                             Lower(resp.req.v))
        /\ \A p \in 1..Len(conversations_cache.v) :
              TitleHolds(conversations_cache.v[p][2], Lower(resp.req.v))
                 /\ Len(resp.body) < SearchLimit
                 => Tagged(resp.body, conversations_cache.v[p][1], "title/summary")

\* a conversation two of whose messages hold the query is listed once, as
\* "message", beside one listed for its summary
C14_Witness ==
    /\ SearchAnswered
    /\ resp.req.v = <<"a">>
    /\ Tagged(resp.body, Str(<<"a">>), "message")
    /\ Tagged(resp.body, Str(<<"c">>), "title/summary")
    /\ HasKey(conversations_cache, Str(<<"a">>))
    /\ TextHits(Item(conversations_cache, Str(<<"a">>)), <<"a">>) = 2
====
